---- MODULE Spec2Model ----
(***************************************************************************)
(* A model of the DCC signal generator of DCCppESP32                       *)
(* (src/src/SignalGenerator.cpp): the packet pool with its two queues, the *)
(* bit serializer loadPacket, the full-cycle timer ISR getNextBitToSend    *)
(* and the generator life cycle configureSignal / startSignal /           *)
(* stopSignal.  One generator is modelled; the two generators of the      *)
(* program share no state.                                                 *)
(***************************************************************************)
EXTENDS Integers, Sequences, FiniteSets, TLC

(***************************************************************************)
(* Bounds of the model.                                                    *)
(***************************************************************************)
\* maxPackets handed to configureSignal (512 and 64 in the program).
PoolSize == 2
\* loadPacket calls made by the callers of the generator in one run.
MaxLoads == 1
\* stopSignal calls in one run.
MaxStops == 1
\* Bits the wire probe records in the boot specification.
BootBits == 1720

(***************************************************************************)
(* Program constants.                                                      *)
(***************************************************************************)
\* uint8_t buffer[10] of struct Packet: loadPacket writes buffer[0..9].
BufferLen == 10
\* startSignal: loadBytePacket(..., resetPacket, 2, 20).
ResetRepeats == 20
\* startSignal: loadBytePacket(..., idlePacket, 2, 10).
IdleRepeats == 10
\* uint8_t: the bytes of data and of buffer wrap at 256, and so do the
\* counters of struct Packet.
ByteMod == 256

\* uint8_t resetPacket[] = {0x00, 0x00}, of which startSignal sends 2 bytes.
resetPacket == <<0, 0>>
\* uint8_t idlePacket[] = {0xFF, 0x00}.
idlePacket == <<255, 0>>

\* DCC_ONE_BIT_TOTAL_DURATION and DCC_ONE_BIT_PULSE_DURATION, microseconds.
OneBitTotal == 116
OneBitPulse == 58
\* DCC_ZERO_BIT_TOTAL_DURATION and DCC_ZERO_BIT_PULSE_DURATION.
ZeroBitTotal == 196
ZeroBitPulse == 98

\* _currentPacket == NULL.
NullPtr == 0 - 1
\* &_idlePacket, the idle singleton; the pool's packets are 1..PoolSize.
IdleSlot == 0
PoolSlots == 1..PoolSize
Slots == 0..PoolSize

(***************************************************************************)
(* Arithmetic on uint8_t.                                                  *)
(***************************************************************************)
\* 1 << k, for k in 0..7.
Pow2(k) == <<1, 2, 4, 8, 16, 32, 64, 128>>[k + 1]

\* (uint8_t)(x << k)
Shl8(x, k) == (x * Pow2(k)) % ByteMod
\* x >> k
Shr(x, k) == x \div Pow2(k)
\* bitRead(x, k)
BitRead(x, k) == (x \div Pow2(k)) % 2

\* a ^ b on uint8_t, bit by bit and tabulated.
RECURSIVE XorBits(_, _, _)
XorBits(a, b, k) ==
  IF k = 0 THEN 0
  ELSE (((a % 2) + (b % 2)) % 2) + 2 * XorBits(a \div 2, b \div 2, k - 1)
XorTable == [a \in 0..(ByteMod - 1) |-> [b \in 0..(ByteMod - 1) |-> XorBits(a, b, 8)]]
Xor8(a, b) == XorTable[a][b]

(***************************************************************************)
(* loadPacket, the serializer (lines 121-156).                             *)
(***************************************************************************)
\* checksum = data[0]; for(i = 1; i < data.size(); i++) checksum ^= data[i];
RECURSIVE ChecksumFrom(_, _, _)
ChecksumFrom(data, i, acc) ==
  IF i > Len(data) THEN acc
  ELSE ChecksumFrom(data, i + 1, Xor8(acc, data[i]))
\* The checksum without its first byte.
ChecksumNoFirst(data) == ChecksumFrom(data, 2, 0)

Checksum(data) == ChecksumFrom(data, 2, data[1])

\* data.push_back(checksum)
Framed(data) == Append(data, Checksum(data))

\* data[i] of the C++ vector `d` (0-based).  A read at or beyond d.size() is
\* out of bounds and yields whatever lies behind the vector: DataAt has 0
\* for each bit of such a byte, and OobAt is the mask of the bits of the
\* byte read that are undetermined.
DataAt(d, i) == IF i + 1 <= Len(d) THEN d[i + 1] ELSE 0
OobAt(d, i) == IF i + 1 <= Len(d) THEN 0 ELSE ByteMod - 1

\* Line 132 with a preamble byte of 0xFE.
PreambleEndFE(b) == 254 + BitRead(b, 7)

\* Line 132: 0xFC + bitRead(data[0], 7), the last six preamble bits, the
\* packet start bit and the first data bit.
PreambleEnd(b) == 252 + BitRead(b, 7)

\* The stores to packet->buffer of lines 129-152, in program order, for the
\* framed data `d`: seven of them when d.size() is 3, nine when it is 4,
\* eleven when it is 5 and thirteen otherwise.
NumStores(d) ==
  IF Len(d) = 3 THEN 7 ELSE IF Len(d) = 4 THEN 9 ELSE IF Len(d) = 5 THEN 11
  ELSE 13

\* The byte store k writes to; buffers are sequences, so that buffer[i] of
\* the program is buf[i + 1] here.
StoreIndex(k) == <<1, 2, 3, 4, 5, 6, 7, 7, 8, 8, 9, 9, 10>>[k]

\* The stores written with +=: lines 141, 146 and 151.
StoreAdds(k) == k \in {8, 10, 12}

\* The right-hand side of store k.
StoreValue(d, k) ==
  CASE k = 1 -> 255
    [] k = 2 -> 255
    [] k = 3 -> PreambleEnd(DataAt(d, 0))
    [] k = 4 -> Shl8(DataAt(d, 0), 1)
    [] k = 5 -> DataAt(d, 1)
    [] k = 6 -> Shr(DataAt(d, 2), 1)
    [] k = 7 -> Shl8(DataAt(d, 2), 7)
    [] k = 8 -> Shr(DataAt(d, 3), 2)
    [] k = 9 -> Shl8(DataAt(d, 3), 6)
    [] k = 10 -> Shr(DataAt(d, 4), 3)
    [] k = 11 -> Shl8(DataAt(d, 4), 5)
    [] k = 12 -> Shr(DataAt(d, 5), 4)
    [] k = 13 -> Shl8(DataAt(d, 5), 4)

\* The bits of the right-hand side of store k that come from a read out of
\* bounds, as a mask: the same shifts, applied to the masks of the bytes read.
StoreUndef(d, k) ==
  CASE k = 1 -> 0
    [] k = 2 -> 0
    [] k = 3 -> BitRead(OobAt(d, 0), 7)
    [] k = 4 -> Shl8(OobAt(d, 0), 1)
    [] k = 5 -> OobAt(d, 1)
    [] k = 6 -> Shr(OobAt(d, 2), 1)
    [] k = 7 -> Shl8(OobAt(d, 2), 7)
    [] k = 8 -> Shr(OobAt(d, 3), 2)
    [] k = 9 -> Shl8(OobAt(d, 3), 6)
    [] k = 10 -> Shr(OobAt(d, 4), 3)
    [] k = 11 -> Shl8(OobAt(d, 4), 5)
    [] k = 12 -> Shr(OobAt(d, 5), 4)
    [] k = 13 -> Shl8(OobAt(d, 5), 4)

\* The Packet `p` after store k.  `undef` is the mask, byte by byte, of the
\* bits of the buffer that hold an undetermined value; such a bit is 0 in
\* `buffer` until it is read.
BufferStore(p, d, k) ==
  LET j == StoreIndex(k)
  IN  IF StoreAdds(k)
      THEN [p EXCEPT !.buffer[j] = (@ + StoreValue(d, k)) % ByteMod,
                     !.undef[j] = (@ + StoreUndef(d, k)) % ByteMod]
      ELSE [p EXCEPT !.buffer[j] = StoreValue(d, k),
                     !.undef[j] = StoreUndef(d, k)]

\* The Packet `p` after the stores k, k + 1, ... of lines 129-152.
RECURSIVE LoadBuffer(_, _, _)
LoadBuffer(p, d, k) ==
  IF k > NumStores(d) THEN p ELSE LoadBuffer(BufferStore(p, d, k), d, k + 1)

\* numberOfBits by the formula 22 + 9 * d.size() - 1.
NumberOfBitsByFormula(d) == 22 + 9 * Len(d) - 1

\* packet->numberOfBits, chosen by the size of the framed data.
LoadNumberOfBits(d) ==
  IF Len(d) = 3 THEN 49
  ELSE IF Len(d) = 4 THEN 58
  ELSE IF Len(d) = 5 THEN 67
  ELSE 76

\* buffer[bit / 8] & bitMask[bit % 8], as 0 or 1.
BitAt(buf, bit) == (buf[(bit \div 8) + 1] \div Pow2(7 - (bit % 8))) % 2

(***************************************************************************)
(* The state of one SignalGenerator.                                       *)
(***************************************************************************)
VARIABLES
  availablePackets,  \* _availablePackets: the free set, a FIFO of slots
  toSend,            \* _toSend: the pending queue, a FIFO of slots
  currentPacket,     \* _currentPacket: NullPtr, IdleSlot or a pool slot
  pkt,               \* the Packet objects: pkt[0] is _idlePacket
  timer,             \* the timer pair: "none", "armed" or "ended"
  cellBit,           \* the bit whose cell the timers are programmed for
  fg,                \* the foreground task: its position and locals
  loadedBy,          \* history: the loadPacket call that last filled a slot
  loadSeq,           \* history: loadPacket calls started so far
  nLoads,            \* history: loadPacket calls made by callers
  nStops,            \* history: stopSignal calls that have returned
  wire,              \* probe: the bits observed on the direction pin
  svc,               \* the API call in progress: its locals and its record
  wave,              \* the timer counters, the pulse alarm, the direction pin
  passes,            \* probe: passes begun of each loadPacket call's packet
  stopTask           \* the task inside stopSignal: "idle" or "delay"

vars == <<availablePackets, toSend, currentPacket, pkt, timer, cellBit, fg,
          loadedBy, loadSeq, nLoads, nStops, wire, svc, wave, passes,
          stopTask>>

\* new Packet(): a value-initialized Packet.
ZeroPacket ==
  [buffer |-> [i \in 1..BufferLen |-> 0], numberOfBits |-> 0,
   numberOfRepeats |-> 0, currentBit |-> 0,
   undef |-> [i \in 1..BufferLen |-> 0]]

\* _idlePacket: the idle frame 0xFF 0x00 0xFF, serialized as loadPacket does,
\* with no repeats.
IdlePacketInit ==
  [LoadBuffer(ZeroPacket, Framed(idlePacket), 1)
     EXCEPT !.numberOfBits = LoadNumberOfBits(Framed(idlePacket))]

\* The foreground task between two calls of the generator's API.
FgIdle == [pc |-> "idle", data |-> <<>>, repeats |-> 0, packet |-> NullPtr,
           ret |-> "idle", waited |-> FALSE, store |-> 0]

\* The foreground task entering loadPacket(data, repeats), to continue at ret.
FgCall(data, repeats, ret) ==
  [pc |-> "lp_wait", data |-> data, repeats |-> repeats, packet |-> NullPtr,
   ret |-> ret, waited |-> FALSE, store |-> 0]

\* No call of the service mode or operations mode API has been made: the
\* locals of such a call, the generator it addresses, the ADC it samples
\* (env), the calls still to come (todo) and the record of the packets it
\* has handed to loadBytePacket (sent), of the readings and outcomes of its
\* ACK checks (reads, acks) and of the values the calls before it returned
\* (returned).
SvcIdle ==
  [op |-> "none", gen |-> "none", loco |-> 0, cv |-> 0, bit |-> 0, value |-> 0,
   cvValue |-> 0, attempt |-> 0, writeVerified |-> FALSE,
   env |-> [kind |-> "none"], todo |-> <<>>, sent |-> <<>>, acks |-> <<>>,
   reads |-> <<>>, done |-> FALSE, result |-> 0, returned |-> <<>>]

\* The timers before startSignal: no alarm is enabled, the pin is low.
\* `fired` tells that the full-cycle ISR has run since the timers were armed.
WaveInit == [pin |-> 0, pulseEnabled |-> FALSE, fullCount |-> 0,
             pulseCount |-> 0, fired |-> FALSE]

\* The SignalGenerator object as constructed: empty queues, no current
\* packet, the idle singleton initialized, no timer.
Init ==
  /\ availablePackets = <<>>
  /\ toSend = <<>>
  /\ currentPacket = NullPtr
  /\ pkt = [s \in Slots |-> IF s = IdleSlot THEN IdlePacketInit ELSE ZeroPacket]
  /\ timer = "none"
  /\ cellBit = 1
  /\ fg = FgIdle
  /\ loadedBy = [s \in PoolSlots |-> 0]
  /\ loadSeq = 0
  /\ nLoads = 0
  /\ nStops = 0
  /\ wire = <<>>
  /\ svc = SvcIdle
  /\ wave = WaveInit
  /\ passes = <<>>
  /\ stopTask = "idle"

(***************************************************************************)
(* getNextBitToSend (lines 71-106), run by the full-cycle timer ISR.       *)
(***************************************************************************)
\* FinishPacket with the last repeat dropped (numberOfRepeats > 1).
FinishPacketOneLess(p, free, cur) ==
  IF cur /= NullPtr /\ p[cur].currentBit = p[cur].numberOfBits
  THEN IF p[cur].numberOfRepeats > 1
       THEN [pkt |-> [p EXCEPT ![cur].numberOfRepeats = @ - 1,
                               ![cur].currentBit = 0],
             free |-> free, cur |-> cur]
       ELSE [pkt |-> p,
             free |-> IF cur /= IdleSlot THEN Append(free, cur) ELSE free,
             cur |-> NullPtr]
  ELSE [pkt |-> p, free |-> free, cur |-> cur]

\* FinishPacket without the test of line 82: the idle singleton is given
\* back to the free set like any packet.
FinishPacketAny(p, free, cur) ==
  IF cur /= NullPtr /\ p[cur].currentBit = p[cur].numberOfBits
  THEN IF p[cur].numberOfRepeats > 0
       THEN [pkt |-> [p EXCEPT ![cur].numberOfRepeats = @ - 1,
                               ![cur].currentBit = 0],
             free |-> free, cur |-> cur]
       ELSE [pkt |-> p, free |-> Append(free, cur), cur |-> NullPtr]
  ELSE [pkt |-> p, free |-> free, cur |-> cur]

\* FinishPacket without line 83: the finished packet is not given back.
FinishPacketLeak(p, free, cur) ==
  IF cur /= NullPtr /\ p[cur].currentBit = p[cur].numberOfBits
  THEN IF p[cur].numberOfRepeats > 0
       THEN [pkt |-> [p EXCEPT ![cur].numberOfRepeats = @ - 1,
                               ![cur].currentBit = 0],
             free |-> free, cur |-> cur]
       ELSE [pkt |-> p, free |-> free, cur |-> NullPtr]
  ELSE [pkt |-> p, free |-> free, cur |-> cur]

\* Lines 75-88: the packet whose bits and repeats are all sent is given up.
\* Yields the packet table, the free set and the current packet.
FinishPacket(p, free, cur) ==
  IF cur /= NullPtr /\ p[cur].currentBit = p[cur].numberOfBits
  THEN IF p[cur].numberOfRepeats > 0
       THEN [pkt |-> [p EXCEPT ![cur].numberOfRepeats = @ - 1,
                               ![cur].currentBit = 0],
             free |-> free, cur |-> cur]
       ELSE [pkt |-> p,
             free |-> IF cur /= IdleSlot THEN Append(free, cur) ELSE free,
             cur |-> NullPtr]
  ELSE [pkt |-> p, free |-> free, cur |-> cur]

\* Lines 91-99: with no packet, the next pending one or the idle singleton.
NextPacket(p, pending, cur) ==
  IF cur = NullPtr
  THEN IF pending /= <<>>
       THEN [pkt |-> p, pending |-> Tail(pending), cur |-> Head(pending)]
       ELSE [pkt |-> [p EXCEPT ![IdleSlot].currentBit = 0],
             pending |-> pending, cur |-> IdleSlot]
  ELSE [pkt |-> p, pending |-> pending, cur |-> cur]

\* Line 102 reads a bit that loadPacket has written from a byte in bounds.
Determined(packet) ==
  /\ packet.currentBit \div 8 < BufferLen
  /\ BitAt(packet.undef, packet.currentBit) = 0

\* Line 102: the bits the read of buffer[currentBit / 8] can yield; a read
\* past the buffer's end, or of a bit that holds an undetermined value,
\* yields either bit.
BitsRead(packet) ==
  IF Determined(packet)
  THEN {BitAt(packet.buffer, packet.currentBit)}
  ELSE {0, 1}

\* The Packet after line 102 has read `bit`: a bit of the buffer that held an
\* undetermined value holds the value read.
ReadBit(packet, bit) ==
  LET j == (packet.currentBit \div 8) + 1
      w == Pow2(7 - (packet.currentBit % 8))
  IN  IF packet.currentBit \div 8 < BufferLen /\ ~Determined(packet)
      THEN [packet EXCEPT !.buffer[j] = @ + bit * w, !.undef[j] = @ - w]
      ELSE packet

\* getNextBitToSend with its result `bit`.
GetNextBitToSend(bit) ==
  LET a == FinishPacket(pkt, availablePackets, currentPacket)
      b == NextPacket(a.pkt, toSend, a.cur)
  IN  /\ bit \in BitsRead(b.pkt[b.cur])
      /\ availablePackets' = a.free
      /\ toSend' = b.pending
      /\ currentPacket' = b.cur
      /\ pkt' = [b.pkt EXCEPT ![b.cur] =
                   [ReadBit(@, bit) EXCEPT !.currentBit = (@ + 1) % ByteMod]]

\* signalGeneratorPulseTimer (lines 169-183): the full-cycle ISR, entered
\* when the auto-reloading full-cycle timer has restarted from 0, fetches the
\* next bit, programs both alarms for its cell, restarts the pulse timer
\* from 0 with its one-shot alarm enabled and drives the pin high.
FullCycleISR(bit) ==
  /\ timer = "armed"
  /\ GetNextBitToSend(bit)
  /\ cellBit' = bit
  /\ wave' = [pin |-> 1, pulseEnabled |-> TRUE, fullCount |-> 0,
              pulseCount |-> 0, fired |-> TRUE]
  /\ UNCHANGED <<timer, fg, loadedBy, loadSeq, nLoads, nStops, svc, stopTask>>

\* The ISR, the direction pin unobserved.
Tick == \E bit \in {0, 1} : FullCycleISR(bit) /\ UNCHANGED <<wire, passes>>

\* The ISR, with a probe on the direction pin recording the bit of each cell.
TickObserved ==
  /\ Len(wire) < BootBits
  /\ \E bit \in {0, 1} : FullCycleISR(bit) /\ wire' = Append(wire, bit)
  /\ UNCHANGED passes

(***************************************************************************)
(* loadPacket (lines 108-167), statement by statement: the ISR may run     *)
(* between any two of them.                                                *)
(***************************************************************************)
\* Lines 112-114: no packet is free, the call sleeps and looks again; that
\* it had to wait is remembered in `waited`.
LpDelay ==
  /\ fg.pc = "lp_wait"
  /\ availablePackets = <<>>
  /\ fg' = [fg EXCEPT !.waited = TRUE]
  /\ UNCHANGED <<availablePackets, toSend, currentPacket, pkt, timer, cellBit,
                 loadedBy, loadSeq, nLoads, nStops, wire, svc, wave, passes,
                 stopTask>>

\* Lines 112-115: a packet is free, the front one is taken.
LpWait ==
  /\ fg.pc = "lp_wait"
  /\ availablePackets /= <<>>
  /\ fg' = [fg EXCEPT !.pc = "lp_pop", !.packet = Head(availablePackets)]
  /\ UNCHANGED <<availablePackets, toSend, currentPacket, pkt, timer, cellBit,
                 loadedBy, loadSeq, nLoads, nStops, wire, svc, wave, passes,
                 stopTask>>

\* Line 116: _availablePackets.pop().
LpPop ==
  /\ fg.pc = "lp_pop"
  /\ availablePackets' = Tail(availablePackets)
  /\ fg' = [fg EXCEPT !.pc = "lp_repeats"]
  /\ UNCHANGED <<toSend, currentPacket, pkt, timer, cellBit, loadedBy,
                 loadSeq, nLoads, nStops, wire, svc, wave, passes, stopTask>>

\* Line 118: packet->numberOfRepeats = numberOfRepeats.
LpRepeats ==
  /\ fg.pc = "lp_repeats"
  /\ pkt' = [pkt EXCEPT ![fg.packet].numberOfRepeats = fg.repeats % ByteMod]
  /\ loadedBy' = [loadedBy EXCEPT ![fg.packet] = loadSeq]
  /\ fg' = [fg EXCEPT !.pc = "lp_curbit"]
  /\ UNCHANGED <<availablePackets, toSend, currentPacket, timer, cellBit,
                 loadSeq, nLoads, nStops, wire, svc, wave, passes, stopTask>>

\* Line 119: packet->currentBit = 0.
LpCurBit ==
  /\ fg.pc = "lp_curbit"
  /\ pkt' = [pkt EXCEPT ![fg.packet].currentBit = 0]
  /\ fg' = [fg EXCEPT !.pc = "lp_buffer", !.store = 1]
  /\ UNCHANGED <<availablePackets, toSend, currentPacket, timer, cellBit,
                 loadedBy, loadSeq, nLoads, nStops, wire, svc, wave, passes,
                 stopTask>>

\* Lines 121-152, store by store: the checksum is appended to the local
\* copy of the data, and store number fg.store is made to the buffer.
LpBuffer ==
  /\ fg.pc = "lp_buffer"
  /\ pkt' = [pkt EXCEPT ![fg.packet] =
               BufferStore(@, Framed(fg.data), fg.store)]
  /\ fg' = IF fg.store = NumStores(Framed(fg.data))
           THEN [fg EXCEPT !.pc = "lp_numbits", !.store = 0]
           ELSE [fg EXCEPT !.store = @ + 1]
  /\ UNCHANGED <<availablePackets, toSend, currentPacket, timer, cellBit,
                 loadedBy, loadSeq, nLoads, nStops, wire, svc, wave, passes,
                 stopTask>>

\* Lines 138-153: packet->numberOfBits.
LpNumBits ==
  /\ fg.pc = "lp_numbits"
  /\ pkt' = [pkt EXCEPT ![fg.packet].numberOfBits =
               LoadNumberOfBits(Framed(fg.data))]
  /\ fg' = [fg EXCEPT !.pc = "lp_push"]
  /\ UNCHANGED <<availablePackets, toSend, currentPacket, timer, cellBit,
                 loadedBy, loadSeq, nLoads, nStops, wire, svc, wave, passes,
                 stopTask>>

\* Line 166: _toSend.push(packet), and the return to the caller.
LpPush ==
  /\ fg.pc = "lp_push"
  /\ toSend' = Append(toSend, fg.packet)
  /\ fg' = [FgIdle EXCEPT !.pc = fg.ret]
  /\ UNCHANGED <<availablePackets, currentPacket, pkt, timer, cellBit,
                 loadedBy, loadSeq, nLoads, nStops, wire, svc, wave, passes,
                 stopTask>>

\* loadBytePacket / loadPacket called by a user of the generator.
LoadPacket(data, repeats) ==
  /\ fg.pc = "idle"
  /\ timer /= "none"
  /\ nLoads < MaxLoads
  /\ fg' = FgCall(data, repeats, "idle")
  /\ loadSeq' = loadSeq + 1
  /\ nLoads' = nLoads + 1
  /\ UNCHANGED <<availablePackets, toSend, currentPacket, pkt, timer, cellBit,
                 loadedBy, nStops, wire, svc, wave, passes, stopTask>>

(***************************************************************************)
(* configureSignal, startSignal and stopSignal (lines 192-280).            *)
(***************************************************************************)
\* configureSignal: the pool is allocated into the free set, then
\* startSignal is entered, whose first statement loads the reset packet.
Configure ==
  /\ fg.pc = "idle"
  /\ timer = "none"
  /\ currentPacket' = NullPtr
  /\ availablePackets' = [i \in 1..PoolSize |-> i]
  /\ fg' = FgCall(resetPacket, ResetRepeats, "start_idle")
  /\ loadSeq' = loadSeq + 1
  /\ wave' = [wave EXCEPT !.pin = 0]
  /\ UNCHANGED <<toSend, pkt, timer, cellBit, loadedBy, nLoads, nStops, wire,
                 svc, passes, stopTask>>

\* startSignal called on a stopped generator, stopSignal having returned:
\* line 218.
Start ==
  /\ fg.pc = "idle"
  /\ timer = "ended"
  /\ stopTask = "idle"
  /\ fg' = FgCall(resetPacket, ResetRepeats, "start_idle")
  /\ loadSeq' = loadSeq + 1
  /\ UNCHANGED <<availablePackets, toSend, currentPacket, pkt, timer, cellBit,
                 loadedBy, nLoads, nStops, wire, svc, wave, passes, stopTask>>

\* startSignal, line 220: the idle packet follows the reset packet.
StartIdle ==
  /\ fg.pc = "start_idle"
  /\ fg' = FgCall(idlePacket, IdleRepeats, "start_timers")
  /\ loadSeq' = loadSeq + 1
  /\ UNCHANGED <<availablePackets, toSend, currentPacket, pkt, timer, cellBit,
                 loadedBy, nLoads, nStops, wire, svc, wave, passes, stopTask>>

\* The microseconds the full-cycle timer, restarted at line 229, can be ahead
\* of the pulse timer, restarted at line 238 after the statements between.
StartSkews == {0, 60}

\* startSignal, lines 222-241: both timers are set to the cell of a one and
\* restarted from 0, and the alarm of the full-cycle timer is enabled; the
\* pulse alarm is not yet, and the ISRs run from here on.
StartTimers ==
  /\ fg.pc = "start_timers"
  /\ timer' = "armed"
  /\ cellBit' = 1
  /\ fg' = [fg EXCEPT !.pc = "start_pulse"]
  /\ \E skew \in StartSkews :
       wave' = [pin |-> wave.pin, pulseEnabled |-> FALSE, fullCount |-> skew,
                pulseCount |-> 0, fired |-> FALSE]
  /\ UNCHANGED <<availablePackets, toSend, currentPacket, pkt, loadedBy,
                 loadSeq, nLoads, nStops, wire, svc, passes, stopTask>>

\* startSignal, lines 242-243: timerAlarmEnable(_pulseTimer), and the return
\* to the caller.  The alarm is enabled whatever the ISRs have done since
\* line 241: again, if the pulse ISR has already run.
StartPulseAlarm ==
  /\ fg.pc = "start_pulse"
  /\ wave' = [wave EXCEPT !.pulseEnabled = TRUE]
  /\ fg' = FgIdle
  /\ UNCHANGED <<availablePackets, toSend, currentPacket, pkt, timer, cellBit,
                 loadedBy, loadSeq, nLoads, nStops, wire, svc, passes,
                 stopTask>>

\* Lines 266-269: the current packet, unless it is the idle singleton, goes
\* back to the free set.
StopCurrent(free, cur) ==
  IF cur /= NullPtr /\ cur /= IdleSlot
  THEN [free |-> Append(free, cur), cur |-> NullPtr]
  ELSE [free |-> free, cur |-> cur]

\* Lines 273-279: the pending queue is drained through _currentPacket, each
\* packet zeroed and pushed to the free set.
StopDrain(p, free, pending, cur) ==
  [pkt |-> [s \in Slots |->
              IF \E i \in 1..Len(pending) : pending[i] = s
              THEN ZeroPacket ELSE p[s]],
   free |-> free \o pending,
   cur |-> IF pending /= <<>> THEN pending[Len(pending)] ELSE cur]

\* stopSignal, lines 247-262, called by a task of its own, be the foreground
\* task inside loadPacket or not: both timers are ended, so that no ISR runs
\* from here on, and the task sleeps in delay(250); the pin keeps its level.
\* The queues and the current packet are as they were; the foreground task
\* runs while this one sleeps.
Stop ==
  /\ timer = "armed"
  /\ stopTask = "idle"
  /\ nStops < MaxStops
  /\ timer' = "ended"
  /\ stopTask' = "delay"
  /\ wave' = [wave EXCEPT !.pulseEnabled = FALSE]
  /\ UNCHANGED <<availablePackets, toSend, currentPacket, pkt, cellBit, fg,
                 loadedBy, loadSeq, nLoads, nStops, wire, svc, passes>>

\* stopSignal, lines 266-279, after the delay: the current packet is given
\* back, the pending queue drained, and the call returns.
StopRelease ==
  /\ stopTask = "delay"
  /\ LET a == StopCurrent(availablePackets, currentPacket)
         b == StopDrain(pkt, a.free, toSend, a.cur)
     IN  /\ pkt' = b.pkt
         /\ availablePackets' = b.free
         /\ currentPacket' = b.cur
  /\ toSend' = <<>>
  /\ stopTask' = "idle"
  /\ nStops' = nStops + 1
  /\ UNCHANGED <<timer, cellBit, fg, loadedBy, loadSeq, nLoads, wire, svc,
                 wave, passes>>

(***************************************************************************)
(* The generator with its callers.                                         *)
(***************************************************************************)
\* The packets the callers load: a three byte packet sent twice and a five
\* byte one sent once.
UserLoads == {<<<<3, 63, 128>>, 1>>, <<<<203, 184, 236, 28, 6>>, 0>>}

Next ==
  \/ Configure
  \/ Start
  \/ StartIdle
  \/ StartTimers
  \/ StartPulseAlarm
  \/ Stop
  \/ StopRelease
  \/ \E l \in UserLoads : LoadPacket(l[1], l[2])
  \/ LpDelay
  \/ LpWait
  \/ LpPop
  \/ LpRepeats
  \/ LpCurBit
  \/ LpBuffer
  \/ LpNumBits
  \/ LpPush
  \/ Tick

Spec == Init /\ [][Next]_vars

(***************************************************************************)
(* Properties of the packet pool.                                          *)
(***************************************************************************)
\* The slots a queue holds.
Range(q) == {q[i] : i \in 1..Len(q)}

\* The positions of the foreground task inside loadPacket.
LpPcs == {"lp_wait", "lp_pop", "lp_repeats", "lp_curbit", "lp_buffer",
          "lp_numbits", "lp_push"}

\* The foreground task is between two calls of the generator's API.
Quiescent == fg.pc = "idle" /\ stopTask = "idle" /\ timer /= "none"

\* C1: packet conservation.  Whenever no call of the generator is in
\* progress, the slots of the free set, the slots of the pending queue and
\* the pool slot the ISR plays (if any) add up to the pool's size.
C1_Conservation ==
  Quiescent =>
    Len(availablePackets) + Len(toSend)
      + (IF currentPacket \in PoolSlots THEN 1 ELSE 0) = PoolSize

\* C2: exclusive slot ownership.  The pool slot the ISR plays is neither
\* free nor pending, no slot is twice in the free set and the pending queue
\* together, and loadPacket does not write the slot the ISR plays.
C2_ExclusiveOwnership ==
  /\ currentPacket \in PoolSlots =>
       currentPacket \notin (Range(availablePackets) \cup Range(toSend))
  /\ \A i, j \in 1..Len(availablePackets \o toSend) :
       i /= j => (availablePackets \o toSend)[i] /= (availablePackets \o toSend)[j]
  /\ fg.pc \in {"lp_repeats", "lp_curbit", "lp_buffer", "lp_numbits"} =>
       fg.packet /= currentPacket

\* C3: every stopSignal call, whatever the state it is made in, leaves the
\* pending queue empty and no current packet.
C3_StopClears ==
  [][nStops' = nStops + 1 => (toSend' = <<>> /\ currentPacket' = NullPtr)]_vars

\* The packets played or waiting to be played, in the order the ISR takes
\* them.
PlayOrder ==
  (IF currentPacket \in PoolSlots THEN <<currentPacket>> ELSE <<>>) \o toSend

\* C4: first in, first out.  While the ISR runs, the packet it plays was loaded before
\* every pending packet, and the pending packets are played in the order
\* their loadPacket calls were made: no packet's bits are sent while a
\* packet loaded before it is still to be sent.
C4_Fifo ==
  timer = "armed" =>
    \A i, j \in 1..Len(PlayOrder) :
      i < j => loadedBy[PlayOrder[i]] < loadedBy[PlayOrder[j]]

(***************************************************************************)
(* Pool exhaustion.  The hardware timer keeps raising the full-cycle       *)
(* interrupt while it is armed, and the foreground task keeps running.     *)
(***************************************************************************)
\* The steps of the foreground task inside a call.
Foreground ==
  \/ LpDelay
  \/ LpWait
  \/ LpPop
  \/ LpRepeats
  \/ LpCurBit
  \/ LpBuffer
  \/ LpNumBits
  \/ LpPush
  \/ StartIdle
  \/ StartTimers
  \/ StartPulseAlarm
  \/ StopRelease

LiveSpec == Init /\ [][Next]_vars /\ WF_vars(Tick) /\ WF_vars(Foreground)

\* loadPacket finds the free set empty while the ISR runs.
Exhausted ==
  fg.pc = "lp_wait" /\ availablePackets = <<>> /\ timer = "armed"

\* C6: a loadPacket call that finds the free set empty while the ISR runs
\* eventually returns; a call returns by appending the one packet it took
\* to the pending queue, and appends nothing before.
C6_ExhaustionTransient ==
  /\ Exhausted ~> (fg.pc \notin LpPcs)
  /\ [][(fg.pc \in LpPcs /\ fg'.pc \notin LpPcs)
          => toSend' = Append(toSend, fg.packet)]_vars
  /\ [][(fg.pc \in LpPcs /\ fg'.pc \in LpPcs)
          => Len(toSend') <= Len(toSend)]_vars

\* A call that had to wait for a free packet is about to enqueue the packet
\* it acquired.
C6_Witness == fg.pc = "lp_push" /\ fg.waited /\ timer = "armed"

(***************************************************************************)
(* The boot sequence: configureSignal, then the ISR alone, with a probe on *)
(* the direction pin.                                                      *)
(***************************************************************************)
NextBoot ==
  \/ Configure
  \/ StartIdle
  \/ StartTimers
  \/ StartPulseAlarm
  \/ LpWait
  \/ LpPop
  \/ LpRepeats
  \/ LpCurBit
  \/ LpBuffer
  \/ LpNumBits
  \/ LpPush
  \/ TickObserved

SpecBoot == Init /\ [][NextBoot]_vars

\* Bit k of a reset packet on the wire: 22 preamble ones, then the start
\* bit and three zero bytes with their separators.
ResetFrameBit(k) == IF k < 22 THEN 1 ELSE 0

\* Bit k of an idle packet on the wire: 22 preamble ones, 0, 11111111, 0,
\* 00000000, 0, 11111111.
IdleFrameBit(k) ==
  IF k < 22 THEN 1
  ELSE IF k = 22 THEN 0
  ELSE IF k < 31 THEN 1
  ELSE IF k < 41 THEN 0
  ELSE 1

\* The bit the probe recorded last is bit k of the frame with number f, if
\* the first `resets` frames are reset packets and all later ones idle
\* packets.
LastBitOfBoot(resets) ==
  LET i == Len(wire) - 1
      f == i \div LoadNumberOfBits(Framed(resetPacket))
      k == i % LoadNumberOfBits(Framed(resetPacket))
  IN  wire[Len(wire)] = IF f < resets THEN ResetFrameBit(k) ELSE IdleFrameBit(k)

\* C5 as stated: the wire carries 20 reset packets, then idle packets only.
C5_Boot20 == wire /= <<>> => LastBitOfBoot(ResetRepeats)

\* C5, amended: after configure, with nothing else enqueued, the wire
\* carries 21 reset packets (the first pass and 20 repeats), then idle
\* packets only: 11 passes of the pool's idle packet (the first pass and 10
\* repeats), then the idle singleton.
C5_Boot21 ==
  wire /= <<>> =>
    /\ LastBitOfBoot(ResetRepeats + 1)
    /\ LET f == (Len(wire) - 1) \div LoadNumberOfBits(Framed(resetPacket))
       IN  IF f < ResetRepeats + 1 + IdleRepeats + 1
           THEN currentPacket \in PoolSlots
           ELSE currentPacket = IdleSlot

\* The boot packets are sent and the idle singleton has been played once.
C5_Witness ==
  /\ Len(wire) = (ResetRepeats + IdleRepeats + 3)
                   * LoadNumberOfBits(Framed(resetPacket))
  /\ currentPacket = IdleSlot

(***************************************************************************)
(* The serializer alone: one packet loaded into a stopped generator, whose *)
(* ISR does not run.                                                       *)
(***************************************************************************)
\* The bytes the payloads are made of.
SerBytes == {0, 1, 128, 255}

\* The payloads: one to six bytes.
SerPayloads == UNION {[1..n -> SerBytes] : n \in 1..6}

\* loadPacket called on the stopped generator, its pending queue empty.
SerLoad ==
  /\ fg.pc = "idle"
  /\ timer = "ended"
  /\ toSend = <<>>
  /\ \E data \in SerPayloads : LoadPacket(data, 0)

NextSer ==
  \/ Configure
  \/ StartIdle
  \/ StartTimers
  \/ StartPulseAlarm
  \/ Stop
  \/ StopRelease
  \/ SerLoad
  \/ LpWait
  \/ LpPop
  \/ LpRepeats
  \/ LpCurBit
  \/ LpBuffer
  \/ LpNumBits
  \/ LpPush

SpecSer == Init /\ [][NextSer]_vars

\* loadPacket is about to enqueue the packet it has written, for a payload
\* of 2 to 5 bytes.
Enqueuing == fg.pc = "lp_push" /\ Len(fg.data) \in 2..5

\* Bit k of the XOR of the bytes of `data`: the parity of the bytes that
\* have bit k set.
XorBit(data, k) ==
  Cardinality({i \in 1..Len(data) : BitRead(data[i], k) = 1}) % 2

\* C7: loadPacket called with a payload of fewer than 2 or more than 5
\* bytes changes neither the free set nor the pending queue: no step of
\* such a call does.
C7_RejectsBadLength ==
  [][(fg.pc \in LpPcs /\ fg' /= fg /\ Len(fg.data) \notin 2..5)
       => (toSend' = toSend /\ availablePackets' = availablePackets)]_vars

\* C8 as stated: in every packet enqueued, bits 0..21 are 1, bit 22 is 0 and
\* the last valid bit is 1.
C8_LastBitOne ==
  Enqueuing =>
    LET p == pkt[fg.packet]
    IN  /\ \A k \in 0..21 : BitAt(p.buffer, k) = 1
        /\ BitAt(p.buffer, 22) = 0
        /\ BitAt(p.buffer, p.numberOfBits - 1) = 1

\* C8, amended: in every packet enqueued, bits 0..21 are 1, bit 22 is 0 and
\* the last valid bit (bit numberOfBits - 1) is the least significant bit of
\* the checksum; the buffer holds no packet end bit.
C8_Preamble ==
  Enqueuing =>
    LET p == pkt[fg.packet]
    IN  /\ \A k \in 0..21 : BitAt(p.buffer, k) = 1
        /\ BitAt(p.buffer, 22) = 0
        /\ BitAt(p.buffer, p.numberOfBits - 1) = XorBit(fg.data, 0)

\* A packet is about to be enqueued whose checksum is even: its last valid
\* bit is 0.
C8_Witness ==
  /\ Enqueuing
  /\ fg.data = <<128, 1, 255, 0, 0>>
  /\ BitAt(pkt[fg.packet].buffer, pkt[fg.packet].numberOfBits - 1) = 0

\* C9: for a payload of n bytes, 2 <= n <= 5, the bits 23+9j .. 30+9j of the
\* buffer are payload byte j, most significant bit first, for j < n; bit
\* 22+9n is 0 and the bits 23+9n .. 30+9n are the XOR of the payload bytes.
C9_FrameBytes ==
  Enqueuing =>
    LET buf == pkt[fg.packet].buffer
        n == Len(fg.data)
    IN  /\ \A j \in 0..(n - 1) : \A b \in 0..7 :
             BitAt(buf, 23 + 9 * j + b) = BitRead(fg.data[j + 1], 7 - b)
        /\ BitAt(buf, 22 + 9 * n) = 0
        /\ \A b \in 0..7 : BitAt(buf, 23 + 9 * n + b) = XorBit(fg.data, 7 - b)

\* A five byte payload with checksum 0x7F is about to be enqueued.
C9_Witness ==
  /\ Enqueuing
  /\ fg.data = <<255, 1, 128, 0, 1>>
  /\ \A b \in 0..7 : BitAt(pkt[fg.packet].buffer, 68 + b) = BitRead(127, 7 - b)

\* C10 as stated: numberOfBits is 9n + 30 for a payload of n bytes.
C10_NumBits30 ==
  Enqueuing => pkt[fg.packet].numberOfBits = 9 * Len(fg.data) + 30

\* C10, amended: for a payload of n bytes before the checksum, 2 <= n <= 5,
\* numberOfBits is 22 + 9 * (n + 1) = 9n + 31, that is 49, 58, 67 or 76.
C10_NumBits31 ==
  Enqueuing => pkt[fg.packet].numberOfBits = 9 * Len(fg.data) + 31

\* A four byte payload is about to be enqueued with 67 bits.
C10_Witness ==
  /\ Enqueuing
  /\ Len(fg.data) = 4
  /\ pkt[fg.packet].numberOfBits = 67

(***************************************************************************)
(* The programming track: ACK detection (lines 293-311).                   *)
(***************************************************************************)
\* const uint8_t CVSampleCount = 250.
CVSampleCount == 250
\* getMaxMilliAmps() of the programming track's motor board.
MaxMilliAmps == 2000
\* uint16_t milliAmpAck = 4096 * 60 / getMaxMilliAmps().
MilliAmpAck == ((4096 * 60) \div MaxMilliAmps) % 65536

\* The sum of the readings lo..hi that are above 0, the range halved at
\* each step.
RECURSIVE AdcSum(_, _, _)
AdcSum(readings, lo, hi) ==
  IF lo > hi THEN 0
  ELSE IF lo = hi THEN (IF readings[lo] > 0 THEN readings[lo] ELSE 0)
  ELSE AdcSum(readings, lo, (lo + hi) \div 2)
         + AdcSum(readings, ((lo + hi) \div 2) + 1, hi)

\* sampleADCChannel: the mean of the readings above 0, or 0 without any.
SampleADCChannel(readings, sampleCount) ==
  LET successfulReads == Cardinality({i \in 1..sampleCount : readings[i] > 0})
      current == AdcSum(readings, 1, sampleCount)
  IN  IF successfulReads /= 0 THEN current \div successfulReads ELSE current

\* What adc1_get_raw yields during one ACK check (reads 1..250): nothing but
\* 0; the threshold itself; 10 above the threshold; 10 above the threshold
\* on reads 3..5 and 0 otherwise; full scale on reads 3..5 over a base of 1.
AdcProfiles == {"zero", "low", "high", "pulse", "pulse_on_base"}

AdcReadings(profile) ==
  [i \in 1..CVSampleCount |->
     CASE profile = "zero" -> 0
       [] profile = "low" -> MilliAmpAck
       [] profile = "high" -> MilliAmpAck + 10
       [] profile = "pulse" -> IF i \in 3..5 THEN MilliAmpAck + 10 ELSE 0
       [] OTHER -> IF i \in 3..5 THEN 4095 ELSE 1]

\* sampleADCChannel(adcChannel, CVSampleCount) > milliAmpAck.
AckOf(profile) ==
  SampleADCChannel(AdcReadings(profile), CVSampleCount) > MilliAmpAck

\* The outcome of the ACK check by profile, tabulated.
AckCheck ==
  [zero |-> AckOf("zero"), low |-> AckOf("low"), high |-> AckOf("high"),
   pulse |-> AckOf("pulse"), pulse_on_base |-> AckOf("pulse_on_base")]

(***************************************************************************)
(* The service mode packets (lines 316-317, 358-359, 391-392).             *)
(***************************************************************************)
HighByte(x) == (x \div ByteMod) % ByteMod
LowByte(x) == x % ByteMod
\* highByte(cv - 1) & 0x03
CvHigh(cv) == HighByte(cv - 1) % 4

\* readCVBitPacket asking whether the bit is 0: 0xE0 + bit.
ReadCVBitPacketZero(cv, bit) ==
  <<(120 + CvHigh(cv)) % ByteMod, LowByte(cv - 1), (224 + bit) % ByteMod>>

\* readCVBitPacket with readCVBitPacket[2] = 0xE8 + bit.
ReadCVBitPacket(cv, bit) ==
  <<(120 + CvHigh(cv)) % ByteMod, LowByte(cv - 1), (232 + bit) % ByteMod>>
\* verifyCVBitPacket of readCV and verifyCVBytePacket of writeProgCVByte.
VerifyCVBytePacket(cv, cvValue) ==
  <<(116 + CvHigh(cv)) % ByteMod, LowByte(cv - 1), cvValue % ByteMod>>
WriteCVBytePacket(cv, cvValue) ==
  <<(124 + CvHigh(cv)) % ByteMod, LowByte(cv - 1), cvValue % ByteMod>>
\* writeCVBitPacket and verifyCVBitPacket of writeProgCVBit; value is 0 or 1.
WriteCVBitPacket(cv, bit, value) ==
  <<(120 + CvHigh(cv)) % ByteMod, LowByte(cv - 1),
    (240 + bit + value * 8) % ByteMod>>
VerifyCVBitPacket(cv, bit, value) ==
  <<(116 + CvHigh(cv)) % ByteMod, LowByte(cv - 1),
    (176 + bit + value * 8) % ByteMod>>

(***************************************************************************)
(* The ADC of the programming track as the service mode functions see it:  *)
(* either a script of readings, one profile for each ACK check, or a       *)
(* decoder on the track that answers the packet enqueued last.             *)
(***************************************************************************)
\* The CVs the decoder keeps.
ProgCVs == {1, 7, 1024}

\* The CV a service mode packet addresses: ten address bits, CV 1 coded as 0.
DecoderCv(p) == (p[1] % 4) * ByteMod + p[2] + 1

\* The instruction of a service mode packet: 0111CCAA with CC = 11 write
\* byte, 01 verify byte, 10 bit manipulation (data byte 111KDBBB, K = 1
\* write, D the bit's value, BBB its position).
IsWriteByte(p) == Len(p) = 3 /\ p[1] \div 4 = 31 /\ DecoderCv(p) \in ProgCVs
IsVerifyByte(p) == Len(p) = 3 /\ p[1] \div 4 = 29 /\ DecoderCv(p) \in ProgCVs
IsBitManip(p) ==
  Len(p) = 3 /\ p[1] \div 4 = 30 /\ p[3] \div 32 = 7 /\ DecoderCv(p) \in ProgCVs

\* The decoder raises an ACK after every write and after every verify whose
\* queried value matches the CV.
DecoderAcks(mem, p) ==
  \/ IsWriteByte(p)
  \/ IsVerifyByte(p) /\ mem[DecoderCv(p)] = p[3]
  \/ IsBitManip(p) /\ BitRead(p[3], 4) = 1
  \/ IsBitManip(p) /\ BitRead(p[3], 4) = 0
       /\ BitRead(mem[DecoderCv(p)], p[3] % 8) = BitRead(p[3], 3)

\* The decoder's CVs after packet p.
DecoderStore(mem, p) ==
  IF IsWriteByte(p) THEN [mem EXCEPT ![DecoderCv(p)] = p[3]]
  ELSE IF IsBitManip(p) /\ BitRead(p[3], 4) = 1
  THEN [mem EXCEPT ![DecoderCv(p)] =
          @ - BitRead(@, p[3] % 8) * Pow2(p[3] % 8)
            + BitRead(p[3], 3) * Pow2(p[3] % 8)]
  ELSE mem

\* A scripted ADC and a decoder with all its CVs 0.
ScriptEnv(script) == [kind |-> "script", script |-> script]
DecoderEnv == [kind |-> "decoder", mem |-> [c \in ProgCVs |-> 0]]

\* The readings of the next ACK check, `last` being the data of the packet
\* enqueued last: a script that has run out reads 0.
EnvProfile(env, last) ==
  IF env.kind = "script"
  THEN IF env.script /= <<>> THEN Head(env.script) ELSE "zero"
  ELSE IF DecoderAcks(env.mem, last) THEN "pulse" ELSE "zero"

\* The ADC after that check.
EnvAfter(env, last) ==
  IF env.kind = "script"
  THEN [env EXCEPT !.script = IF @ /= <<>> THEN Tail(@) ELSE @]
  ELSE [env EXCEPT !.mem = DecoderStore(@, last)]

(***************************************************************************)
(* readCV, writeProgCVByte and writeProgCVBit (lines 313-418), statement   *)
(* by statement between the calls of loadBytePacket; the ISR of the        *)
(* programming track's generator runs in between.                          *)
(***************************************************************************)
\* What the steps of the service mode functions leave alone.
SvcFrame ==
  UNCHANGED <<availablePackets, toSend, currentPacket, pkt, timer, cellBit,
              loadedBy, nLoads, nStops, wire, wave, passes, stopTask>>

\* loadBytePacket(signalGenerator, data, length, repeats) called by an API
\* function whose locals become s, to continue at ret.
SvcLoad(s, data, repeats, ret) ==
  /\ fg' = FgCall(data, repeats, ret)
  /\ loadSeq' = loadSeq + 1
  /\ svc' = [s EXCEPT !.sent = Append(@, <<data, repeats>>)]
  /\ SvcFrame

\* The ACK check: sampleADCChannel(...) > milliAmpAck.
SvcAck == AckCheck[EnvProfile(svc.env, svc.sent[Len(svc.sent)][1])]

\* The locals after an ACK check.
SvcSampled ==
  [svc EXCEPT !.env = EnvAfter(@, svc.sent[Len(svc.sent)][1]),
              !.reads = Append(@, EnvProfile(svc.env,
                                             svc.sent[Len(svc.sent)][1])),
              !.acks = Append(@, SvcAck)]

\* The calls of a session and its ADC.
ReadCall(cv) == [op |-> "read", cv |-> cv, bit |-> 0, value |-> 0]
ByteCall(cv, value) == [op |-> "wbyte", cv |-> cv, bit |-> 0, value |-> value]
BitCall(cv, bit, value) == [op |-> "wbit", cv |-> cv, bit |-> bit, value |-> value]
Session(calls, env) == [calls |-> calls, env |-> env]

\* The scripts of the ADC for readCV, a profile for each of the nine ACK
\* checks: no ACK at all; ACKs in rounds 1, 3, 5 and 7 and in the
\* verification; ACKs in all rounds and none in the verification.
ReadScripts ==
  { <<>>,
    <<"zero", "high", "zero", "pulse", "pulse_on_base", "high", "low",
      "high", "pulse">>,
    <<"high", "high", "high", "high", "high", "high", "high", "high", "low">> }

\* The scripts of the ADC for writeProgCVByte: no ACK at all; four attempts
\* whose verification is not acknowledged and a fifth with both ACKs.
ByteScripts ==
  { <<>>,
    <<"high", "low", "high", "zero", "high", "low", "high", "pulse_on_base",
      "high", "pulse">> }

\* The scripts of the ADC for writeProgCVBit: both ACKs at once; no write
\* ACK, then no verify ACK, then both ACKs.
BitScripts ==
  { <<"high", "pulse">>,
    <<"zero", "high", "pulse_on_base", "pulse", "high">> }

\* The CVs and values written and read back with a decoder on the track.
DecoderTrips ==
  { [cv |-> 1024, value |-> 170], [cv |-> 7, value |-> 255],
    [cv |-> 1, value |-> 0] }

\* The sessions on the programming track: one call with a scripted ADC, or
\* a write followed by a read of the same CV with a decoder on the track.
Sessions ==
  {Session(<<ReadCall(7)>>, ScriptEnv(a)) : a \in ReadScripts}
    \cup {Session(<<ByteCall(7, 85)>>, ScriptEnv(a)) : a \in ByteScripts}
    \cup {Session(<<BitCall(1024, 2, 1)>>, ScriptEnv(a)) : a \in BitScripts}
    \cup {Session(<<ByteCall(t.cv, t.value), ReadCall(t.cv)>>, DecoderEnv)
            : t \in DecoderTrips}

\* The calls that can be made next in the state: the first call of a
\* session, or the next one when the call before it has returned.
NextCalls ==
  IF svc.op = "none"
  THEN {[call |-> x.calls[1], todo |-> Tail(x.calls), env |-> x.env]
          : x \in Sessions}
  ELSE IF svc.done /\ svc.todo /= <<>>
  THEN {[call |-> svc.todo[1], todo |-> Tail(svc.todo), env |-> svc.env]}
  ELSE {}

\* The locals at the entry of the call c, addressed to the programming
\* track's generator.
SvcEntry(c) ==
  [SvcIdle EXCEPT !.op = c.call.op, !.gen = "PROG", !.cv = c.call.cv,
                  !.bit = c.call.bit, !.value = c.call.value,
                  !.attempt = 1, !.env = c.env, !.todo = c.todo,
                  !.returned = svc.returned]

\* readCV(cv), lines 313-325: bit = 0, the first reset packet.
ReadCV ==
  /\ fg.pc = "idle"
  /\ timer = "armed"
  /\ \E c \in NextCalls :
       /\ c.call.op = "read"
       /\ SvcLoad(SvcEntry(c), resetPacket, 3, "rd_bit_packet")

\* Lines 324-326: the verify bit packet of the round.
RdBitPacket ==
  /\ fg.pc = "rd_bit_packet"
  /\ SvcLoad(svc, ReadCVBitPacket(svc.cv, svc.bit), 5, "rd_bit_wait")

\* bitWrite with the bit positions counted from the most significant bit.
BitSetFromTop(x, bit) ==
  IF BitRead(x, 7 - bit) = 1 THEN x ELSE x + Pow2(7 - bit)

\* bitWrite(cvValue, bit, 1)
BitSet(x, bit) == IF BitRead(x, bit) = 1 THEN x ELSE x + Pow2(bit)

\* Lines 328-339: the ACK check of the round sets the bit of cvValue; then
\* the next round, or after round 7 the reset packet of the verification.
RdBitSample ==
  /\ fg.pc = "rd_bit_sample"
  /\ LET s == [SvcSampled EXCEPT
                 !.cvValue = IF SvcAck THEN BitSet(@, svc.bit) ELSE @,
                 !.bit = @ + 1]
     IN  SvcLoad(s, resetPacket, 3,
                 IF s.bit < 8 THEN "rd_bit_packet" ELSE "rd_verify_packet")

\* Lines 337-340: the verify byte packet with cvValue & 0xFF.
RdVerifyPacket ==
  /\ fg.pc = "rd_verify_packet"
  /\ SvcLoad(svc, VerifyCVBytePacket(svc.cv, svc.cvValue % ByteMod), 5,
             "rd_verify_wait")

\* Lines 342-351: the ACK check of the verification and the return.
RdVerifySample ==
  /\ fg.pc = "rd_verify_sample"
  /\ LET result == IF SvcAck THEN svc.cvValue ELSE 0 - 1
     IN  svc' = [SvcSampled EXCEPT !.done = TRUE, !.result = result,
                                   !.returned = Append(@, result)]
  /\ fg' = FgIdle
  /\ UNCHANGED loadSeq
  /\ SvcFrame

\* const uint8_t maxWriteAttempts = 5.
MaxWriteAttempts == 5

\* The write packet and the verify packet of the write function in progress.
WritePacket(s) ==
  IF s.op = "wbyte" THEN WriteCVBytePacket(s.cv, s.value)
  ELSE WriteCVBitPacket(s.cv, s.bit, s.value)
VerifyPacket(s) ==
  IF s.op = "wbyte" THEN VerifyCVBytePacket(s.cv, s.value)
  ELSE VerifyCVBitPacket(s.cv, s.bit, s.value)

\* writeProgCVByte(cv, cvValue), lines 354-365: attempt = 1, its reset packet.
WriteProgCVByte ==
  /\ fg.pc = "idle"
  /\ timer = "armed"
  /\ \E c \in NextCalls :
       /\ c.call.op = "wbyte"
       /\ SvcLoad(SvcEntry(c), resetPacket, 1, "wr_write_packet")

\* writeProgCVBit(cv, bit, value), lines 387-398.
WriteProgCVBit ==
  /\ fg.pc = "idle"
  /\ timer = "armed"
  /\ \E c \in NextCalls :
       /\ c.call.op = "wbit"
       /\ SvcLoad(SvcEntry(c), resetPacket, 1, "wr_write_packet")

\* WrWritePacket with 3 repeats.
WrWritePacketThree ==
  /\ fg.pc = "wr_write_packet"
  /\ SvcLoad(svc, WritePacket(svc), 3, "wr_write_wait")

\* Lines 366 and 399: the write packet.
WrWritePacket ==
  /\ fg.pc = "wr_write_packet"
  /\ SvcLoad(svc, WritePacket(svc), 4, "wr_write_wait")

\* WrWriteSample with the verification made whatever the ACK check says.
WrWriteSampleAlways ==
  /\ fg.pc = "wr_write_sample"
  /\ SvcLoad(SvcSampled, resetPacket, 3, "wr_verify_packet")

\* Lines 369-382 and 402-415: the ACK check of the write; with an ACK the
\* reset packet before the verification, without one the attempt's trailing
\* reset packet.
WrWriteSample ==
  /\ fg.pc = "wr_write_sample"
  /\ SvcLoad(SvcSampled, resetPacket, 3,
             IF SvcAck THEN "wr_verify_packet" ELSE "wr_next")

\* Lines 371 and 404: the verify packet.
WrVerifyPacket ==
  /\ fg.pc = "wr_verify_packet"
  /\ SvcLoad(svc, VerifyPacket(svc), 5, "wr_verify_wait")

\* Lines 374-382 and 407-415: the ACK check of the verification, then the
\* attempt's trailing reset packet.
WrVerifySample ==
  /\ fg.pc = "wr_verify_sample"
  /\ SvcLoad([SvcSampled EXCEPT !.writeVerified = SvcAck], resetPacket, 3,
             "wr_next")

\* Lines 363 and 396: attempt++ and the loop's test; then the next attempt's
\* reset packet, or (lines 384 and 417) the return of writeVerified.
WrNext ==
  /\ fg.pc = "wr_next"
  /\ LET s == [svc EXCEPT !.attempt = (@ + 1) % ByteMod]
     IN  IF s.attempt <= MaxWriteAttempts /\ ~s.writeVerified
         THEN SvcLoad(s, resetPacket, 1, "wr_write_packet")
         ELSE /\ svc' = [s EXCEPT !.done = TRUE, !.result = s.writeVerified,
                                  !.returned = Append(@, s.writeVerified)]
              /\ fg' = FgIdle
              /\ UNCHANGED loadSeq
              /\ SvcFrame

\* The positions at which the service mode functions call waitForQueueEmpty
\* and the positions of the ACK checks that follow.
WaitPcs == {"rd_bit_wait", "rd_verify_wait", "wr_write_wait", "wr_verify_wait"}
SamplePcs ==
  {"rd_bit_sample", "rd_verify_sample", "wr_write_sample", "wr_verify_sample"}
AfterWait(pc) ==
  CASE pc = "rd_bit_wait" -> "rd_bit_sample"
    [] pc = "rd_verify_wait" -> "rd_verify_sample"
    [] pc = "wr_write_wait" -> "wr_write_sample"
    [] OTHER -> "wr_verify_sample"

\* waitForQueueEmpty returning at once.
WaitForQueueEmptyNoWait ==
  /\ fg.pc \in WaitPcs
  /\ fg' = [fg EXCEPT !.pc = AfterWait(fg.pc)]
  /\ UNCHANGED <<loadSeq, svc>>
  /\ SvcFrame

\* waitForQueueEmpty (lines 282-287) returns when it finds _toSend empty.
WaitForQueueEmpty ==
  /\ fg.pc \in WaitPcs
  /\ toSend = <<>>
  /\ fg' = [fg EXCEPT !.pc = AfterWait(fg.pc)]
  /\ UNCHANGED <<loadSeq, svc>>
  /\ SvcFrame

(***************************************************************************)
(* The programming track: the generator after configureSignal, the         *)
(* sessions of service mode calls, and the ISR with a probe that counts    *)
(* the passes of each packet.                                              *)
(***************************************************************************)
\* One more pass begun of the packet loaded by call number k.
Bump(counts, k) ==
  IF k <= Len(counts) THEN [counts EXCEPT ![k] = @ + 1]
  ELSE counts \o [i \in 1..(k - Len(counts)) |->
                    IF i = k - Len(counts) THEN 1 ELSE 0]

\* The ISR, with a probe that counts a pass of a pool packet when its first
\* bit is sent.
TickCounted ==
  /\ \E bit \in {0, 1} : FullCycleISR(bit)
  /\ passes' = IF currentPacket' \in PoolSlots
                    /\ pkt'[currentPacket'].currentBit = 1
               THEN Bump(passes, loadedBy[currentPacket'])
               ELSE passes
  /\ UNCHANGED wire

NextProg ==
  \/ Configure
  \/ StartIdle
  \/ StartTimers
  \/ StartPulseAlarm
  \/ LpDelay
  \/ LpWait
  \/ LpPop
  \/ LpRepeats
  \/ LpCurBit
  \/ LpBuffer
  \/ LpNumBits
  \/ LpPush
  \/ ReadCV
  \/ RdBitPacket
  \/ RdBitSample
  \/ RdVerifyPacket
  \/ RdVerifySample
  \/ WriteProgCVByte
  \/ WriteProgCVBit
  \/ WrWritePacket
  \/ WrWriteSample
  \/ WrVerifyPacket
  \/ WrVerifySample
  \/ WrNext
  \/ WaitForQueueEmpty
  \/ TickCounted

SpecProg == Init /\ [][NextProg]_vars

(***************************************************************************)
(* Properties of the service mode functions.                               *)
(***************************************************************************)
\* A call of readCV has returned.
ReadReturned == svc.op = "read" /\ svc.done

\* The value whose bit i is 1 exactly if ACK check number i + 1 of `acks`
\* was positive, for the bits from i upwards.
RECURSIVE AckValue(_, _)
AckValue(acks, i) ==
  IF i > 7 THEN 0
  ELSE (IF acks[i + 1] THEN Pow2(i) ELSE 0) + AckValue(acks, i + 1)

\* C11: readCV makes exactly eight verify bit rounds, for the bits 0..7 in
\* this order, and then one verify byte round, each round a reset packet, a
\* verify packet and an ACK check; it returns -1 if the ACK check of the
\* verify byte round is negative and otherwise the value in 0..255 whose bit
\* i is 1 exactly if the ACK check of round i was positive.
C11_ReadCV ==
  ReadReturned =>
    /\ Len(svc.acks) = 9
    /\ Len(svc.sent) = 18
    /\ \A r \in 0..8 : svc.sent[2 * r + 1][1] = <<0, 0>>
    /\ \A i \in 0..7 :
         /\ svc.sent[2 * i + 2][1][1] \div 4 = 30
         /\ svc.sent[2 * i + 2][1][3] = 232 + i
    /\ svc.sent[18][1][1] \div 4 = 29
    /\ svc.sent[18][1][3] = AckValue(svc.acks, 0)
    /\ svc.result = IF svc.acks[9] THEN AckValue(svc.acks, 0) ELSE 0 - 1
    /\ svc.result \in (0 - 1)..255

\* readCV has returned 0xAA after ACKs in the rounds 1, 3, 5 and 7 and in
\* the verification.
C11_Witness ==
  /\ ReadReturned
  /\ svc.result = 170
  /\ svc.acks = <<FALSE, TRUE, FALSE, TRUE, FALSE, TRUE, FALSE, TRUE, TRUE>>

\* A call of writeProgCVByte or writeProgCVBit has returned.
WriteReturned == svc.op \in {"wbyte", "wbit"} /\ svc.done

\* The attempts of a write function, read off the packets it has handed to
\* loadBytePacket and its ACK checks: an attempt is a reset packet, a write
\* packet and an ACK check (wack), then either a reset packet, a verify
\* packet (vsent) and a second ACK check (vack) or neither, then a reset
\* packet.
RECURSIVE Attempts(_, _)
Attempts(sent, acks) ==
  IF sent = <<>> THEN <<>>
  ELSE IF Len(sent) >= 5 /\ sent[4][1][1] \div 4 = 29
  THEN <<[wack |-> acks[1], vsent |-> TRUE, vack |-> acks[2]]>>
         \o Attempts(SubSeq(sent, 6, Len(sent)), SubSeq(acks, 3, Len(acks)))
  ELSE <<[wack |-> acks[1], vsent |-> FALSE, vack |-> FALSE]>>
         \o Attempts(SubSeq(sent, 4, Len(sent)), SubSeq(acks, 2, Len(acks)))

\* C12: writeProgCVByte and writeProgCVBit make at most five attempts; an
\* attempt sends its verify packet only if its write ACK check is positive;
\* no attempt follows one with both ACK checks positive; and the value
\* returned is true exactly if an attempt had both ACK checks positive.
C12_WriteAttempts ==
  WriteReturned =>
    LET a == Attempts(svc.sent, svc.acks)
    IN  /\ Len(a) \in 1..5
        /\ \A i \in 1..Len(a) : a[i].vsent <=> a[i].wack
        /\ \A i \in 1..(Len(a) - 1) : ~(a[i].wack /\ a[i].vack)
        /\ svc.result = (\E i \in 1..Len(a) : a[i].wack /\ a[i].vack)

\* writeProgCVByte has returned true from its fifth attempt, after four
\* attempts whose verification was not acknowledged.
C12_Witness ==
  /\ WriteReturned
  /\ svc.op = "wbyte"
  /\ svc.result = TRUE
  /\ Len(Attempts(svc.sent, svc.acks)) = 5
  /\ \A i \in 1..4 : Attempts(svc.sent, svc.acks)[i].vsent

\* The passes begun of the packet of the call's loadBytePacket call number
\* j: the loadPacket calls of the generator are numbered, and the last
\* Len(svc.sent) of them are the call's.
PassesOfSent(j) ==
  LET k == loadSeq - Len(svc.sent) + j
  IN  IF k <= Len(passes) THEN passes[k] ELSE 0

\* The packet of the call's loadBytePacket call number j has been sent with
\* all its repeats: a packet loaded after it is being sent.
SentOut(j) == loadSeq - Len(svc.sent) + j < Len(passes)

\* writeProgCVByte is running or has returned, and every reading of the ADC
\* was 0.
WritingUnanswered ==
  /\ svc.op = "wbyte"
  /\ \A i \in 1..Len(svc.reads) : svc.reads[i] = "zero"

\* The cycles of a write that is never acknowledged, `resets` passes of a
\* reset packet, `writes` passes of the write byte packet and `trailing`
\* passes of a reset packet in each: the packets handed to loadBytePacket
\* are these three in turn and none of them a verify packet, none is sent
\* more often than that and each is sent that often before the next; the
\* function returns false, after five cycles.
UnansweredCycles(resets, writes, trailing) ==
  /\ \A j \in 1..Len(svc.sent) :
       LET data == svc.sent[j][1]
           due == IF j % 3 = 1 THEN resets
                  ELSE IF j % 3 = 2 THEN writes ELSE trailing
       IN  /\ IF j % 3 = 2 THEN data[1] \div 4 = 31 ELSE data = <<0, 0>>
           /\ PassesOfSent(j) <= due
           /\ SentOut(j) => PassesOfSent(j) = due
  /\ svc.done => (svc.result = FALSE /\ Len(svc.sent) = 15)
  /\ Len(svc.sent) <= 15

\* C13 as stated: with every ADC reading 0, writeProgCVByte returns false
\* after exactly five cycles, in each of which the generator sends 1 reset
\* packet, 4 write byte packets and 3 reset packets, and no verify packet.
C13_Cycle143 == WritingUnanswered => UnansweredCycles(1, 4, 3)

\* C13, amended: with every ADC reading 0, writeProgCVByte returns false
\* after exactly five cycles, in each of which the generator sends 2 reset
\* packets (repeat count 1), 5 write byte packets (repeat count 4) and 4
\* reset packets (repeat count 3), and no verify packet.
C13_Cycle254 == WritingUnanswered => UnansweredCycles(2, 5, 4)

\* writeProgCVByte has returned false without any ACK and the last of its
\* fifteen packets is in its fourth pass.
C13_Witness ==
  /\ WritingUnanswered
  /\ svc.done
  /\ Len(svc.reads) = 5
  /\ PassesOfSent(15) = 4

\* waitForQueueEmpty has returned and the ACK check that follows it has not
\* been made yet.
Sampling == fg.pc \in SamplePcs

\* C14 as stated: when the ACK check begins, no packet enqueued before the
\* wait is being sent any more: the ISR has sent the last bit of the last
\* pass of the last of them.
C14_SampleAfterSent == Sampling => currentPacket \notin PoolSlots

\* C14, amended: when waitForQueueEmpty returns and the ACK check begins,
\* the pending queue is empty; every packet the function enqueued before
\* the last one has been sent with all its repeats, and the ISR has begun
\* the first pass of the last one, which may still be the current packet.
C14_SampleAfterTaken ==
  Sampling =>
    /\ toSend = <<>>
    /\ \A j \in 1..(Len(svc.sent) - 1) :
         SentOut(j) /\ PassesOfSent(j) = svc.sent[j][2] + 1
    /\ PassesOfSent(Len(svc.sent)) >= 1

\* The ACK check is about to begin while the packet enqueued last is in its
\* first pass, all its repeats still to come.
C14_Witness ==
  /\ Sampling
  /\ currentPacket \in PoolSlots
  /\ PassesOfSent(Len(svc.sent)) = 1
  /\ pkt[currentPacket].numberOfRepeats = svc.sent[Len(svc.sent)][2]
  /\ pkt[currentPacket].numberOfRepeats > 0

\* C15: with a decoder on the track that stores the byte of a write byte
\* packet and acknowledges every write and every verify packet whose value
\* matches the CV, writeProgCVByte(cv, v) returns true and the readCV(cv)
\* that follows returns v.
C15_WriteThenRead ==
  \A t \in DecoderTrips :
    svc.env.kind = "decoder" /\ svc.cv = t.cv =>
      /\ Len(svc.returned) >= 1 => svc.returned[1] = TRUE
      /\ Len(svc.returned) >= 2 => svc.returned[2] = t.value
      /\ svc.op = "read" /\ svc.done => svc.returned = <<TRUE, t.value>>

\* readCV(1024) has returned 170 after writeProgCVByte(1024, 170) returned
\* true, the decoder holding 170 in CV 1024.
C15_Witness ==
  /\ svc.env.kind = "decoder"
  /\ svc.op = "read" /\ svc.cv = 1024 /\ svc.done
  /\ svc.env.mem[1024] = 170
  /\ svc.returned = <<TRUE, 170>>

(***************************************************************************)
(* writeOpsCVByte and writeOpsCVBit (lines 420-464) on the generator of    *)
(* the operations track.                                                   *)
(***************************************************************************)
\* The address bytes, with one byte for every locomotive up to 255.
OpsAddressOneByteTo255(locoNumber) ==
  IF locoNumber > 255
  THEN <<192 + (HighByte(locoNumber) % 64), LowByte(locoNumber)>>
  ELSE <<LowByte(locoNumber)>>

\* if(locoNumber > 127): 0xC0 | highByte(locoNumber), lowByte(locoNumber);
\* else lowByte(locoNumber). The OR with 0xC0 sets the two top bits.
OpsAddress(locoNumber) ==
  IF locoNumber > 127
  THEN <<192 + (HighByte(locoNumber) % 64), LowByte(locoNumber)>>
  ELSE <<LowByte(locoNumber)>>

\* writeCVBytePacket of writeOpsCVByte, without its trailing 0x00.
OpsCVBytePacket(locoNumber, cv, cvValue) ==
  OpsAddress(locoNumber)
    \o <<(236 + CvHigh(cv)) % ByteMod, LowByte(cv - 1), cvValue % ByteMod>>

\* writeCVBitPacket of writeOpsCVBit, without its trailing 0x00.
OpsCVBitPacket(locoNumber, cv, bit, value) ==
  OpsAddress(locoNumber)
    \o <<(232 + CvHigh(cv)) % ByteMod, LowByte(cv - 1),
         (240 + bit + value * 8) % ByteMod>>

\* The arguments of the calls.
OpsLocos == {1, 3, 127, 128, 255, 256, 3000, 10239}
OpsCVs == {1, 256, 257, 1024}
OpsValues == {0, 6, 255}
OpsBits == {0, 7}

\* The locals of an operations mode call.
OpsEntry(op, locoNumber, cv, bit, value) ==
  [SvcIdle EXCEPT !.op = op, !.gen = "OPS", !.loco = locoNumber, !.cv = cv,
                  !.bit = bit, !.value = value]

\* The operations track is running, its boot packets sent, and no API call
\* has been made yet.
OpsReady ==
  /\ fg.pc = "idle"
  /\ timer = "armed"
  /\ svc.op = "none"
  /\ toSend = <<>>
  /\ currentPacket = IdleSlot

\* writeOpsCVByte(locoNumber, cv, cvValue): loadBytePacket with a length of
\* 5 or 4 and 4 repeats, then the return.
WriteOpsCVByte ==
  /\ OpsReady
  /\ \E locoNumber \in OpsLocos, cv \in OpsCVs, cvValue \in OpsValues :
       SvcLoad(OpsEntry("obyte", locoNumber, cv, 0, cvValue),
               OpsCVBytePacket(locoNumber, cv, cvValue), 4, "idle")

\* writeOpsCVBit(locoNumber, cv, bit, value).
WriteOpsCVBit ==
  /\ OpsReady
  /\ \E locoNumber \in OpsLocos, cv \in OpsCVs, bit \in OpsBits,
        value \in {0, 1} :
       SvcLoad(OpsEntry("obit", locoNumber, cv, bit, value),
               OpsCVBitPacket(locoNumber, cv, bit, value), 4, "idle")

NextOps ==
  \/ Configure
  \/ StartIdle
  \/ StartTimers
  \/ StartPulseAlarm
  \/ LpWait
  \/ LpPop
  \/ LpRepeats
  \/ LpCurBit
  \/ LpBuffer
  \/ LpNumBits
  \/ LpPush
  \/ WriteOpsCVByte
  \/ WriteOpsCVBit
  \/ TickCounted

SpecOps == Init /\ [][NextOps]_vars

\* An operations mode packet read by the rules of the DCC standard: an
\* address of one byte 1..127, or of two bytes 11AAAAAA AAAAAAAA; then
\* 1110CCVV VVVVVVVV DDDDDDDD with CC = 11 write byte, CC = 10 bit
\* manipulation with DDDDDDDD = 1111DBBB (write bit BBB with D); CV 1 is
\* coded as 0.
OpsLong(p) == p[1] \in 192..231
OpsRest(p) == IF OpsLong(p) THEN SubSeq(p, 3, Len(p)) ELSE Tail(p)
OpsDecode(p) ==
  LET rest == OpsRest(p)
      kind == IF rest[1] \div 4 = 59 THEN "obyte"
              ELSE IF rest[1] \div 4 = 58 /\ rest[3] \div 16 = 15 THEN "obit"
              ELSE "other"
  IN  [valid |-> (OpsLong(p) \/ p[1] \in 1..127) /\ Len(rest) = 3
                   /\ kind /= "other",
       op |-> kind,
       loco |-> IF OpsLong(p) THEN (p[1] % 64) * ByteMod + p[2] ELSE p[1],
       cv |-> (rest[1] % 4) * ByteMod + rest[2] + 1,
       bit |-> IF kind = "obit" THEN rest[3] % 8 ELSE 0,
       value |-> IF kind = "obit" THEN BitRead(rest[3], 3) ELSE rest[3]]

\* The packet as C16 words it.
OpsStated(loco, kind, cv, bit, value) ==
  (IF loco <= 127 THEN <<loco>> ELSE <<192 + (loco \div 256), loco % 256>>)
    \o <<(IF kind = "obyte" THEN 236 ELSE 232) + (((cv - 1) \div 256) % 4),
         (cv - 1) % 256,
         IF kind = "obyte" THEN value
         ELSE 240 + bit + (IF value /= 0 THEN 8 ELSE 0)>>

\* An operations mode call has been made.
OpsCalled == svc.op \in {"obyte", "obit"}

\* C16: writeOpsCVByte and writeOpsCVBit hand exactly one packet to the
\* generator of the operations track and none to the programming track's,
\* with 4 repeats; its bytes are the address (one byte up to 127, else
\* 0xC0|high, low), 0xEC or 0xE8 with the two high bits of cv - 1, the low
\* byte of cv - 1, and the value or 0xF0|bit|8*value; read by the rules of
\* the standard it gives back the locomotive, the CV and the value or bit;
\* and the one packet enqueued has 4 repeats and the bits of that payload
\* with its checksum byte.
C16_OpsRoundTrip ==
  OpsCalled =>
    /\ svc.gen = "OPS"
    /\ Len(svc.sent) = 1
    /\ svc.sent[1][2] = 4
    /\ svc.sent[1][1] = OpsStated(svc.loco, svc.op, svc.cv, svc.bit, svc.value)
    /\ LET d == OpsDecode(svc.sent[1][1])
       IN  /\ d.valid
           /\ d.op = svc.op /\ d.loco = svc.loco /\ d.cv = svc.cv
           /\ d.bit = svc.bit /\ d.value = svc.value
    /\ Cardinality({x \in PoolSlots : loadedBy[x] = loadSeq}) <= 1
    /\ \A x \in Range(toSend) :
         loadedBy[x] = loadSeq =>
           /\ pkt[x].numberOfRepeats = 4
           /\ pkt[x].numberOfBits = 22 + 9 * (Len(svc.sent[1][1]) + 1)

\* writeOpsCVBit(128, 1024, 7, 1) has returned and its packet is pending.
C16_Witness ==
  /\ svc.op = "obit" /\ svc.loco = 128 /\ svc.cv = 1024
  /\ svc.bit = 7 /\ svc.value = 1
  /\ fg.pc = "idle"
  /\ svc.sent = << <<(<<192, 128, 235, 255, 255>>), 4>> >>
  /\ \E x \in Range(toSend) : loadedBy[x] = loadSeq

(***************************************************************************)
(* Properties of the ISR.                                                  *)
(***************************************************************************)
\* C17: in every state, whatever the interleaving of the ISR with the
\* statements of loadPacket and with stopSignal and startSignal, the
\* current packet's currentBit lies in 0..numberOfBits, so that the ISR
\* never reads a bit at or past numberOfBits.
C17_BitInRange ==
  currentPacket /= NullPtr =>
    /\ pkt[currentPacket].currentBit >= 0
    /\ pkt[currentPacket].currentBit <= pkt[currentPacket].numberOfBits

\* The step is a run of the ISR in which it has no packet after its first
\* part (lines 75-88) and finds the pending queue empty.
IsrNeedsIdle ==
  /\ \E bit \in {0, 1} : FullCycleISR(bit)
  /\ FinishPacket(pkt, availablePackets, currentPacket).cur = NullPtr
  /\ toSend = <<>>

\* The idle singleton is in neither queue and is not the packet loadPacket
\* has acquired.
IdleApart ==
  /\ IdleSlot \notin Range(availablePackets)
  /\ IdleSlot \notin Range(toSend)
  /\ fg.packet /= IdleSlot

\* C18: the idle singleton is never in the free set nor in the pending
\* queue, whatever the ISR, stopSignal and loadPacket do, and loadPacket
\* never acquires it; and an ISR that needs a packet and finds the pending
\* queue empty makes the idle singleton current and sends its bit 0.
C18_IdleSingleton ==
  /\ []IdleApart
  /\ [][IsrNeedsIdle =>
          /\ currentPacket' = IdleSlot
          /\ pkt'[IdleSlot].currentBit = 1
          /\ cellBit' = BitAt(pkt[IdleSlot].buffer, 0)
          /\ pkt'[IdleSlot].buffer = pkt[IdleSlot].buffer
          /\ availablePackets' \in {availablePackets,
                                    Append(availablePackets, currentPacket)}
          /\ currentPacket = IdleSlot => availablePackets' = availablePackets
       ]_vars

\* The ISR has finished a pass of the idle singleton and, all pool packets
\* being free, begun the next one at bit 0.
C18_Witness ==
  /\ nStops = 0
  /\ timer = "armed"
  /\ currentPacket = IdleSlot
  /\ pkt[IdleSlot].currentBit = 1
  /\ toSend = <<>>
  /\ loadSeq > 2
  /\ Len(availablePackets) = PoolSize

(***************************************************************************)
(* The two timers of a generator in time: the full-cycle timer restarts    *)
(* from 0 at its alarm and runs signalGeneratorPulseTimer, the pulse timer *)
(* runs signalGeneratorDirectionTimer once at its alarm.  The counters are *)
(* in microseconds; time passes from one alarm to the next.                *)
(***************************************************************************)
\* The alarm of the full-cycle timer for a cell of `bit` (lines 175, 178;
\* line 227 for the first cell).
FullAlarm(bit) == IF bit = 1 THEN OneBitTotal ELSE ZeroBitTotal

\* The pulse alarm of a zero set to the length of two cells.
PulseAlarmLate(bit) == IF bit = 1 THEN OneBitPulse ELSE 2 * ZeroBitTotal

\* The alarm of the pulse timer for a cell of `bit` (lines 174, 177; line
\* 236 for the alarm startSignal enables).
PulseAlarm(bit) == IF bit = 1 THEN OneBitPulse ELSE ZeroBitPulse

\* The time to each alarm.
FullRemaining == FullAlarm(cellBit) - wave.fullCount
PulseRemaining == PulseAlarm(cellBit) - wave.pulseCount

\* The pulse alarm was enabled, by line 243, with the pulse timer already
\* at its alarm: the timer hardware, which is not in the source, either
\* raises the interrupt at once or lets the alarm pass.
PulseMissed == wave.pulseEnabled /\ PulseRemaining <= 0

\* The full-cycle alarm is the next to go off: the full-cycle ISR.
WaveFull ==
  /\ wave.pulseEnabled => (FullRemaining <= PulseRemaining \/ PulseMissed)
  /\ Tick

\* The enabled pulse alarm is the next to go off: the pulse ISR
\* signalGeneratorDirectionTimer (lines 185-190) drives the pin low; the
\* alarm does not reload.
WavePulse ==
  /\ timer = "armed"
  /\ wave.pulseEnabled
  /\ PulseRemaining <= FullRemaining
  /\ wave' = [pin |-> 0, pulseEnabled |-> FALSE,
              fullCount |-> wave.fullCount + PulseRemaining,
              pulseCount |-> PulseAlarm(cellBit), fired |-> wave.fired]
  /\ UNCHANGED <<availablePackets, toSend, currentPacket, pkt, timer, cellBit,
                 fg, loadedBy, loadSeq, nLoads, nStops, wire, svc, passes,
                 stopTask>>

NextWave ==
  \/ Configure
  \/ Start
  \/ StartIdle
  \/ StartTimers
  \/ StartPulseAlarm
  \/ Stop
  \/ StopRelease
  \/ LpWait
  \/ LpPop
  \/ LpRepeats
  \/ LpCurBit
  \/ LpBuffer
  \/ LpNumBits
  \/ LpPush
  \/ WaveFull
  \/ WavePulse

SpecWave == Init /\ [][NextWave]_vars

\* C19 as stated: from startSignal onward the two ISRs alternate beginning
\* with a full-cycle ISR: every run of the pulse ISR comes after a run of
\* the full-cycle ISR of the same cell, which has driven the pin high.
C19_AlternateFromStart ==
  [][WavePulse => wave.fired /\ wave.pin = 1]_vars

\* The pulse alarm is enabled although the pulse ISR of the cell has run.
EnabledWhileLow ==
  timer = "armed" /\ wave.fired /\ wave.pin = 0 /\ wave.pulseEnabled

\* C19, amended: the pulse alarm that startSignal itself enables (line 243)
\* can run the pulse ISR once with no full-cycle ISR of its own: before the
\* first full-cycle ISR, or after the pulse ISR of a cell when the ISRs
\* have run before line 243; only line 243 enables the alarm while the pin
\* is low, and that run leaves the pin low.  Every other run of the pulse
\* ISR comes at the pulse duration of its cell after the full-cycle ISR, and
\* every full-cycle ISR but the first at the total duration after the one
\* before; the pin is high from each full-cycle ISR to its pulse ISR and low
\* from the pulse ISR to the next full-cycle ISR.
C19_AlternateAfterFirst ==
  /\ [](timer = "armed" /\ wave.fired /\ wave.pin = 1 => wave.pulseEnabled)
  /\ [](timer = "armed" /\ ~wave.fired /\ ~wave.pulseEnabled
          /\ fg.pc /= "start_pulse" => wave.pin = 0)
  /\ [][EnabledWhileLow' /\ ~EnabledWhileLow => fg.pc = "start_pulse"]_vars
  /\ [][WavePulse =>
          /\ wave'.pin = 0
          /\ ~wave'.pulseEnabled
          /\ (wave.fired /\ wave.pin = 1) =>
               wave'.fullCount = PulseAlarm(cellBit)
       ]_vars
  /\ [][WaveFull =>
          /\ wave'.pin = 1
          /\ wave'.pulseEnabled
          /\ wave.fired =>
               /\ wave.pin = 0
               /\ wave.fullCount = PulseAlarm(cellBit)
               /\ FullRemaining = FullAlarm(cellBit) - PulseAlarm(cellBit)
       ]_vars

\* The pulse ISR has run 98 microseconds after the full-cycle ISR of a zero
\* and driven the pin low.
C19_Witness ==
  /\ timer = "armed"
  /\ wave.fired
  /\ cellBit = 0
  /\ wave.pin = 0
  /\ ~wave.pulseEnabled
  /\ wave.fullCount = ZeroBitPulse

\* The step is a run of the full-cycle ISR.
IsrStep == \E bit \in {0, 1} : FullCycleISR(bit)

\* How often slot x is in the free set.
TimesFree(free, x) == Cardinality({i \in 1..Len(free) : free[i] = x})

\* C20: a packet enqueued with r repeats is played r + 1 times: the ISR
\* that takes it from the pending queue sends its bit 0 with all r repeats
\* still to come; each further ISR sends the next bit of the same packet;
\* at the end of a pass with repeats left the ISR takes one off and sends
\* bit 0 again at once; at the end of the pass with no repeat left it
\* pushes the slot to the free set, where it then is exactly once.
C20_PlayedRepeatsPlusOne ==
  [][IsrStep =>
       LET c == currentPacket
           d == currentPacket'
       IN  /\ toSend' /= toSend =>
                /\ d \in PoolSlots
                /\ pkt'[d].currentBit = 1
                /\ cellBit' = BitAt(pkt[d].buffer, 0)
                /\ pkt'[d].numberOfRepeats = pkt[d].numberOfRepeats
           /\ c \in PoolSlots =>
                IF pkt[c].currentBit /= pkt[c].numberOfBits
                THEN /\ d = c
                     /\ pkt[c].currentBit < pkt[c].numberOfBits
                     /\ pkt'[c].currentBit = pkt[c].currentBit + 1
                     /\ cellBit' = BitAt(pkt[c].buffer, pkt[c].currentBit)
                     /\ pkt'[c].numberOfRepeats = pkt[c].numberOfRepeats
                ELSE IF pkt[c].numberOfRepeats > 0
                THEN /\ d = c
                     /\ pkt'[c].currentBit = 1
                     /\ cellBit' = BitAt(pkt[c].buffer, 0)
                     /\ pkt'[c].numberOfRepeats = pkt[c].numberOfRepeats - 1
                ELSE /\ d /= c
                     /\ c \notin Range(toSend)
                     /\ availablePackets' = Append(availablePackets, c)
                     /\ TimesFree(availablePackets', c) = 1
    ]_vars

(***************************************************************************)
(* The foreground task and the ISR on the two queues.  loadPacket tests    *)
(* _availablePackets.empty(), reads front() and calls pop() (lines         *)
(* 112-116) and calls _toSend.push() (line 166) with the timer interrupt   *)
(* enabled; the ISR pushes to the free set (line 83) and pops the pending  *)
(* queue (lines 92-94).                                                    *)
(***************************************************************************)
\* loadPacket has read the front of the free set (line 115) and has not yet
\* popped it (line 116).
MidPop == fg.pc = "lp_pop"

\* C21: the pop of the free set in loadPacket is atomic for the ISR: no run
\* of the ISR that changes the free set comes between the first step of the
\* pop, the read of the front, and its last step.  (The push to the pending
\* queue is a single call, line 166, and a single step here.)
C21_AtomicQueues ==
  [][IsrStep /\ MidPop => availablePackets' = availablePackets]_vars

====
